---- MODULE Spec2Model ----
(***************************************************************************)
(* Model of the geometric clipmap mesh generator of fast_terrain           *)
(* (src/src/geoclipmap.rs, src/src/types.rs).                              *)
(*                                                                         *)
(* GeoClipMap::generate is a straight-line sequence of five blocks (Tile,  *)
(* Filler, Trim, Cross, Seam).  Each block sizes two packed buffers,       *)
(* fills them by position, registers the buffers with the rendering back   *)
(* end (create_mesh) and, for Tile, Filler and Trim, refines them once     *)
(* with subdivide_half and registers them again.  The model follows the    *)
(* control flow of the function with a program counter; the loop of        *)
(* subdivide_half advances one triangle per step.                          *)
(*                                                                         *)
(* Numbers.  Every vertex coordinate that the code produces is a multiple  *)
(* of 0.5 and the only other float is the 0.1 height of the bounding box.  *)
(* Floats are therefore represented exactly as integers counting tenths    *)
(* (Unit model units per 1.0); at the sizes explored every such f32        *)
(* operation of the code (sum, halving, squared length, times 100000) is   *)
(* exact.  Packed arrays are sequences; the code's 0-based index i is      *)
(* position i + 1 of the sequence.  A Rid returned by the back end is the  *)
(* position of the mesh in the back end's list of created meshes.          *)
(***************************************************************************)
EXTENDS Integers, Sequences, FiniteSets, TLC

VARIABLES
    pc,            \* position in generate / subdivide_half
    ret,           \* position at which the caller of subdivide_half continues
    size,          \* argument size (tile_resolution)
    levels,        \* argument levels
    vertices,      \* the current block's vertex buffer
    indices,       \* the current block's index buffer
    aabb,          \* the bounding box binding in scope
    new_vertices,  \* subdivide_half: output vertex buffer
    new_indices,   \* subdivide_half: output index buffer
    vertex_map,    \* subdivide_half: weld table, a set of <<key, index>>
    chunk,         \* subdivide_half: number of triangles already visited
    meshes,        \* back end: the meshes created so far, in creation order
    roles,         \* for each created mesh, the place of generate that created it
    handles,       \* the mesh handle bound to each local name of generate
    result         \* the value returned by generate

vars == <<pc, ret, size, levels, vertices, indices, aabb, new_vertices,
          new_indices, vertex_map, chunk, meshes, roles, handles, result>>

-----------------------------------------------------------------------------
(* Bounds of the exploration *)

MaxSize == 3
MaxNeg == 1
MaxLevels == 2
MaxTris == 2

Sizes == (0 - MaxNeg)..MaxSize
Levels == 1..MaxLevels

-----------------------------------------------------------------------------
(* Vectors, boxes, quantization *)

Unit == 10

Vec(x, y, z) == <<x * Unit, y * Unit, z * Unit>>

ZERO == <<0, 0, 0>>

NoAabb == [position |-> ZERO, size |-> ZERO]

NewAabb(position, sz) == [position |-> position, size |-> sz]

\* The analytic box of the Tile and Filler blocks: Aabb::new(ZERO, (pvr, 0.1, pvr)).
PatchAabb(pvr) == NewAabb(ZERO, <<pvr * Unit, Unit \div 10, pvr * Unit>>)

TruncDiv(a, b) == IF a >= 0 THEN a \div b ELSE 0 - ((0 - a) \div b)

\* (v.x * 100000.0) as i32 and likewise y, z: scale, then truncate toward zero.
FromVector3(v) == <<TruncDiv(v[1] * 100000, Unit),
                    TruncDiv(v[2] * 100000, Unit),
                    TruncDiv(v[3] * 100000, Unit)>>

\* Mutant of Midpoint: the point a quarter of the way from p1 to p2.
MidpointQuarter(p1, p2) ==
    <<(3 * p1[1] + p2[1]) \div 4, (3 * p1[2] + p2[2]) \div 4, (3 * p1[3] + p2[3]) \div 4>>

\* (p1 + p2) / 2.0
Midpoint(p1, p2) == <<(p1[1] + p2[1]) \div 2, (p1[2] + p2[2]) \div 2, (p1[3] + p2[3]) \div 2>>

Sub(p, q) == <<p[1] - q[1], p[2] - q[2], p[3] - q[3]>>

LengthSquared(d) == d[1] * d[1] + d[2] * d[2] + d[3] * d[3]

-----------------------------------------------------------------------------
(* Packed arrays: resize, then positional writes with a bounds check *)

\* resize(n as usize): a negative n does not convert; new elements are zeroed.
Resize(n, zero) ==
    IF n < 0 THEN [ok |-> FALSE, buf |-> <<>>]
    ELSE [ok |-> TRUE, buf |-> [i \in 1..n |-> zero]]

\* buf[w[1]] = w[2] for every w of writes, in order; an index outside the
\* buffer panics.
Store(buf, writes) ==
    IF \E j \in 1..Len(writes) : writes[j][1] < 0 \/ writes[j][1] >= Len(buf)
    THEN [ok |-> FALSE, buf |-> buf]
    ELSE [ok |-> TRUE,
          buf |-> [i \in 1..Len(buf) |->
                    IF \E j \in 1..Len(writes) : writes[j][1] = i - 1
                    THEN LET last == CHOOSE j \in 1..Len(writes) :
                                        /\ writes[j][1] = i - 1
                                        /\ \A j2 \in (j + 1)..Len(writes) : writes[j2][1] # i - 1
                         IN  writes[last][2]
                    ELSE buf[i]]]

\* A buffer sized to n elements and then written.
Filled(n, zero, writes) ==
    LET r == Resize(n, zero)
    IN  IF r.ok THEN Store(r.buf, writes) ELSE r

-----------------------------------------------------------------------------
(* Resolutions derived from size at the top of generate *)

TileRes(sz) == sz

PatchVertRes(sz) == TileRes(sz) + 1

ClipmapRes(sz) == TileRes(sz) * 4 + 1

ClipmapVertRes(sz) == ClipmapRes(sz) + 1

\* Mutant of patch_2d: column-major addressing.
patch_2d_column_major(x, y, resolution) == x * resolution + y

patch_2d(x, y, resolution) == y * resolution + x

-----------------------------------------------------------------------------
(* Patch lattice, as written by the Tile block and again by the Filler block *)

\* for y in 0..pvr { for x in 0..pvr { vertices[n] = (x, 0, y); n += 1 } }
LatticeVertexWrites(pvr) ==
    IF pvr <= 0 THEN <<>>
    ELSE [j \in 1..(pvr * pvr) |-> <<j - 1, Vec((j - 1) % pvr, 0, (j - 1) \div pvr)>>]

\* The six indices written for cell (x, y).
CellIndices(x, y, pvr) ==
    << patch_2d(x, y, pvr), patch_2d(x + 1, y + 1, pvr), patch_2d(x, y + 1, pvr),
       patch_2d(x, y, pvr), patch_2d(x + 1, y, pvr), patch_2d(x + 1, y + 1, pvr) >>

\* for y in 0..tr { for x in 0..tr { indices[n .. n+5] = ...; n += 6 } }
LatticeIndexWrites(tr, pvr) ==
    IF tr <= 0 THEN <<>>
    ELSE [j \in 1..(6 * tr * tr) |->
            LET cell == (j - 1) \div 6
            IN  <<j - 1, CellIndices(cell % tr, cell \div tr, pvr)[((j - 1) % 6) + 1]>>]

\* Mutant of TileVertices: the buffer is sized by cells, not by vertices.
TileVerticesSizedByCells(sz) ==
    Filled(TileRes(sz) * TileRes(sz), ZERO, LatticeVertexWrites(PatchVertRes(sz)))

TileVertices(sz) ==
    Filled(PatchVertRes(sz) * PatchVertRes(sz), ZERO, LatticeVertexWrites(PatchVertRes(sz)))

TileIndices(sz) ==
    Filled(TileRes(sz) * TileRes(sz) * 6, 0, LatticeIndexWrites(TileRes(sz), PatchVertRes(sz)))

\* The Filler block sizes its vertex buffer to patch_vert_resolution elements
\* and then runs the same double loop as the Tile block.
FillerVertices(sz) ==
    Filled(PatchVertRes(sz), ZERO, LatticeVertexWrites(PatchVertRes(sz)))

FillerIndices(sz) ==
    Filled(TileRes(sz) * TileRes(sz) * 6, 0, LatticeIndexWrites(TileRes(sz), PatchVertRes(sz)))

-----------------------------------------------------------------------------
(* Trim *)

\* The vertex written at position n: four loops (arms) of pvr pairs each.
TrimVertex(n, sz) ==
    LET pvr    == PatchVertRes(sz)
        offset == TileRes(sz)
        arm    == n \div (2 * pvr)
        i      == (n % (2 * pvr)) \div 2
        first  == (n % 2 = 0)
    IN  CASE arm = 0 -> IF first THEN Vec(offset + i + 1, 0, 0) ELSE Vec(offset + i + 1, 0, 1)
          [] arm = 1 -> IF first THEN Vec(1, 0, offset + i + 1) ELSE Vec(0, 0, offset + i + 1)
          [] arm = 2 -> IF first THEN Vec((0 - offset) + i, 0, 1) ELSE Vec((0 - offset) + i, 0, 0)
          [] OTHER   -> IF first THEN Vec(0, 0, (0 - offset) + i) ELSE Vec(1, 0, (0 - offset) + i)

TrimVertexWrites(sz) ==
    IF PatchVertRes(sz) <= 0 THEN <<>>
    ELSE [j \in 1..(8 * PatchVertRes(sz)) |-> <<j - 1, TrimVertex(j - 1, sz)>>]

\* The six indices written for iteration i of the index loop.
TrimCell(i, tr) ==
    LET arm == i \div tr
        bl  == (arm + i) * 2 + 0
        br  == (arm + i) * 2 + 1
        tl  == (arm + i) * 2 + 2
        tr2 == (arm + i) * 2 + 3
    IN  IF arm % 2 = 0 THEN <<br, bl, tr2, bl, tl, tr2>>
                       ELSE <<br, bl, tl, br, tl, tr2>>

TrimIndexWrites(sz) ==
    IF TileRes(sz) <= 0 THEN <<>>
    ELSE [j \in 1..(24 * TileRes(sz)) |->
            <<j - 1, TrimCell((j - 1) \div 6, TileRes(sz))[((j - 1) % 6) + 1]>>]

TrimVertices(sz) == Filled(PatchVertRes(sz) * 8, ZERO, TrimVertexWrites(sz))

TrimIndices(sz) == Filled(TileRes(sz) * 24, 0, TrimIndexWrites(sz))

-----------------------------------------------------------------------------
(* Cross *)

\* Two loops of 2 * pvr pairs: the horizontal row, then the vertical row.
CrossVertex(n, sz) ==
    LET pvr   == PatchVertRes(sz)
        tr    == TileRes(sz)
        i     == (n % (4 * pvr)) \div 2
        first == (n % 2 = 0)
    IN  IF n < 4 * pvr
        THEN IF first THEN Vec(i - tr, 0, 0) ELSE Vec(i - tr, 0, 1)
        ELSE IF first THEN Vec(0, 0, i - tr) ELSE Vec(1, 0, i - tr)

CrossVertexWrites(sz) ==
    IF PatchVertRes(sz) <= 0 THEN <<>>
    ELSE [j \in 1..(8 * PatchVertRes(sz)) |-> <<j - 1, CrossVertex(j - 1, sz)>>]

\* let start_of_vertical = n as i32, after the first vertex loop
StartOfVertical(sz) == IF PatchVertRes(sz) <= 0 THEN 0 ELSE 4 * PatchVertRes(sz)

CrossHorizontalCell(i) ==
    LET bl == i * 2 + 0
        br == i * 2 + 1
        tl == i * 2 + 2
        tr == i * 2 + 3
    IN  <<br, bl, tr, bl, tl, tr>>

CrossVerticalCell(i, sov) ==
    LET bl == i * 2 + 0
        br == i * 2 + 1
        tl == i * 2 + 2
        tr == i * 2 + 3
    IN  <<sov + br, sov + tr, sov + bl, sov + bl, sov + tr, sov + tl>>

\* First loop: i in 0..(2 tr + 1).  Second loop: the same range without
\* i = tr (continue); its m-th executed iteration has i = m or m + 1.
CrossIndexWrites(sz) ==
    LET tr    == TileRes(sz)
        count == 2 * tr + 1
        skips == IF 0 <= tr /\ tr < count THEN 1 ELSE 0
    IN  IF count <= 0 THEN <<>>
        ELSE [j \in 1..(6 * count + 6 * (count - skips)) |->
                LET it == (j - 1) \div 6
                    k  == ((j - 1) % 6) + 1
                IN  IF it < count
                    THEN <<j - 1, CrossHorizontalCell(it)[k]>>
                    ELSE LET m == it - count
                             i == IF skips = 1 /\ m >= tr THEN m + 1 ELSE m
                         IN  <<j - 1, CrossVerticalCell(i, StartOfVertical(sz))[k]>>]

CrossVertices(sz) == Filled(PatchVertRes(sz) * 8, ZERO, CrossVertexWrites(sz))

CrossIndices(sz) == Filled(TileRes(sz) * 24 + 6, 0, CrossIndexWrites(sz))

-----------------------------------------------------------------------------
(* Seam *)

\* Iteration i of the vertex loop writes positions cvr*0+i, cvr*1+i, cvr*2+i, cvr*3+i.
SeamVertexWrites(sz) ==
    LET cvr == ClipmapVertRes(sz)
    IN  IF cvr <= 0 THEN <<>>
        ELSE [j \in 1..(4 * cvr) |->
                LET i    == (j - 1) \div 4
                    side == (j - 1) % 4
                IN  CASE side = 0 -> <<cvr * 0 + i, Vec(i, 0, 0)>>
                      [] side = 1 -> <<cvr * 1 + i, Vec(cvr, 0, i)>>
                      [] side = 2 -> <<cvr * 2 + i, Vec(cvr - i, 0, cvr)>>
                      [] OTHER    -> <<cvr * 3 + i, Vec(0, 0, cvr - i)>>]

\* for i in (0..cvr*4).step_by(2) { indicies[n..n+2] = i+1, i, i+2; n += 3 }
SeamLoopWrites(sz) ==
    LET cvr   == ClipmapVertRes(sz)
        steps == IF cvr <= 0 THEN 0 ELSE (cvr * 4 + 1) \div 2
    IN  [j \in 1..(3 * steps) |->
            LET i == 2 * ((j - 1) \div 3)
            IN  <<j - 1, <<i + 1, i, i + 2>>[((j - 1) % 3) + 1]>>]

\* let len = indicies.len(); indicies[len - 1] = 0;
SeamIndexWrites(sz) ==
    Append(SeamLoopWrites(sz), <<ClipmapVertRes(sz) * 6 - 1, 0>>)

SeamVertices(sz) == Filled(ClipmapVertRes(sz) * 4, ZERO, SeamVertexWrites(sz))

SeamIndices(sz) == Filled(ClipmapVertRes(sz) * 6, 0, SeamIndexWrites(sz))

-----------------------------------------------------------------------------
(* subdivide_half *)

\* Mutant of find_or_add_vertex: no lookup, every position is appended.
find_or_add_vertex_unwelded(st, vertex) ==
    [map |-> st.map \cup {<<FromVector3(vertex), Len(st.verts)>>},
     verts |-> Append(st.verts, vertex),
     index |-> Len(st.verts)]

\* Mutant of find_or_add_vertex: a new vertex is pushed but not recorded in
\* the table.
find_or_add_vertex_not_recorded(st, vertex) ==
    LET key == FromVector3(vertex)
    IN  IF \E e \in st.map : e[1] = key
        THEN [map |-> st.map, verts |-> st.verts,
              index |-> (CHOOSE e \in st.map : e[1] = key)[2]]
        ELSE [map |-> st.map,
              verts |-> Append(st.verts, vertex),
              index |-> Len(st.verts)]

\* Mutant of find_or_add_vertex: the table records the buffer length after
\* the push.
find_or_add_vertex_length_after(st, vertex) ==
    LET key == FromVector3(vertex)
    IN  IF \E e \in st.map : e[1] = key
        THEN [map |-> st.map, verts |-> st.verts,
              index |-> (CHOOSE e \in st.map : e[1] = key)[2]]
        ELSE [map |-> st.map \cup {<<key, Len(st.verts) + 1>>},
              verts |-> Append(st.verts, vertex),
              index |-> Len(st.verts)]

\* The closure find_or_add_vertex.  st has the weld table (map) and the new
\* vertex buffer (verts); the result adds the index found or given.
find_or_add_vertex(st, vertex) ==
    LET key == FromVector3(vertex)
    IN  IF \E e \in st.map : e[1] = key
        THEN [map |-> st.map, verts |-> st.verts,
              index |-> (CHOOSE e \in st.map : e[1] = key)[2]]
        ELSE [map |-> st.map \cup {<<key, Len(st.verts)>>},
              verts |-> Append(st.verts, vertex),
              index |-> Len(st.verts)]

\* Mutant of SplitEdge: the first edge is bisected whatever the lengths.
SplitEdgeAlwaysAB(a, b, c) == "ab"

\* Mutant of SplitEdge: strict comparisons, so a tie falls to the last branch.
SplitEdgeStrict(a, b, c) ==
    LET length_ab == LengthSquared(Sub(b, a))
        length_bc == LengthSquared(Sub(c, b))
        length_ca == LengthSquared(Sub(a, c))
    IN  IF length_ab > length_bc /\ length_ab > length_ca THEN "ab"
        ELSE IF length_bc > length_ab /\ length_bc > length_ca THEN "bc"
        ELSE "ca"

\* Which edge the loop body bisects: "ab", else "bc", else "ca".
SplitEdge(a, b, c) ==
    LET length_ab == LengthSquared(Sub(b, a))
        length_bc == LengthSquared(Sub(c, b))
        length_ca == LengthSquared(Sub(a, c))
    IN  IF length_ab >= length_bc /\ length_ab >= length_ca THEN "ab"
        ELSE IF length_bc >= length_ab /\ length_bc >= length_ca THEN "bc"
        ELSE "ca"

\* The midpoint welded by the chosen branch.
SplitMidpoint(edge, a, b, c) ==
    CASE edge = "ab" -> Midpoint(a, b)
      [] edge = "bc" -> Midpoint(b, c)
      [] OTHER       -> Midpoint(c, a)

\* Mutant of SplitIndices: only the first of the two triangles is pushed.
SplitIndicesOneChild(edge, a_id, b_id, c_id, mid_id) ==
    CASE edge = "ab" -> <<a_id, mid_id, c_id>>
      [] edge = "bc" -> <<b_id, mid_id, a_id>>
      [] OTHER       -> <<c_id, mid_id, b_id>>

\* Mutant of SplitIndices: the second triangle is pushed in reverse order.
SplitIndicesSecondReversed(edge, a_id, b_id, c_id, mid_id) ==
    CASE edge = "ab" -> <<a_id, mid_id, c_id, c_id, b_id, mid_id>>
      [] edge = "bc" -> <<b_id, mid_id, a_id, a_id, c_id, mid_id>>
      [] OTHER       -> <<c_id, mid_id, b_id, b_id, a_id, mid_id>>

\* The six indices pushed by the chosen branch.
SplitIndices(edge, a_id, b_id, c_id, mid_id) ==
    CASE edge = "ab" -> <<a_id, mid_id, c_id, mid_id, b_id, c_id>>
      [] edge = "bc" -> <<b_id, mid_id, a_id, mid_id, c_id, a_id>>
      [] OTHER       -> <<c_id, mid_id, b_id, mid_id, a_id, b_id>>

\* Mutant of SplitTriangle: the midpoint is welded before the corners.
SplitTriangleMidpointFirst(st, inds, a, b, c) ==
    LET edge == SplitEdge(a, b, c)
        rm   == find_or_add_vertex(st, SplitMidpoint(edge, a, b, c))
        ra   == find_or_add_vertex(rm, a)
        rb   == find_or_add_vertex(ra, b)
        rc   == find_or_add_vertex(rb, c)
    IN  [map   |-> rc.map,
         verts |-> rc.verts,
         inds  |-> inds \o SplitIndices(edge, ra.index, rb.index, rc.index, rm.index)]

\* One iteration of the loop over indices_vec.chunks(3), for the triangle
\* with corner positions a, b, c.
SplitTriangle(st, inds, a, b, c) ==
    LET edge == SplitEdge(a, b, c)
        ra   == find_or_add_vertex(st, a)
        rb   == find_or_add_vertex(ra, b)
        rc   == find_or_add_vertex(rb, c)
        rm   == find_or_add_vertex(rc, SplitMidpoint(edge, a, b, c))
    IN  [map   |-> rm.map,
         verts |-> rm.verts,
         inds  |-> inds \o SplitIndices(edge, ra.index, rb.index, rc.index, rm.index)]

RECURSIVE SubdividePass(_, _, _, _, _)
\* The loop over indices_vec.chunks(3) for the chunks lo .. hi - 1, on buffers
\* for which no unwrap fails; acc has the weld table and the new buffers before
\* chunk lo.  The range is run as two halves, the first one evaluated before
\* the second starts, which keeps the evaluation shallow.
SubdividePass(vs, is, lo, hi, acc) ==
    IF hi <= lo
    THEN acc
    ELSE IF hi = lo + 1
    THEN SplitTriangle([map |-> acc.map, verts |-> acc.verts], acc.inds,
                       vs[is[3 * lo + 1] + 1], vs[is[3 * lo + 2] + 1],
                       vs[is[3 * lo + 3] + 1])
    ELSE LET mid  == (lo + hi) \div 2
             left == SubdividePass(vs, is, lo, mid, acc)
         IN  IF Len(left.inds) >= 0
             THEN SubdividePass(vs, is, mid, hi, left)
             ELSE left

\* subdivide_half as a function of the caller's buffers: the buffers it
\* leaves in their place.
subdivide_half(vs, is) ==
    LET r == SubdividePass(vs, is, 0, Len(is) \div 3,
                           [map |-> {}, verts |-> <<>>, inds |-> <<>>])
    IN  [vertices |-> r.verts, indices |-> r.inds]

\* vertices.get(id as usize): Some only for 0 <= id < len.
HasVertex(buf, id) == 0 <= id /\ id < Len(buf)

\* Mutant of EnterSubdivide: the weld table and the output buffers of the
\* previous call are kept.
EnterSubdivideKeepsTable(continue_at) ==
    /\ pc' = "subdivide"
    /\ ret' = continue_at
    /\ UNCHANGED <<new_vertices, new_indices, vertex_map>>
    /\ chunk' = 0

\* Entry of subdivide_half: empty output buffers and weld table.
EnterSubdivide(continue_at) ==
    /\ pc' = "subdivide"
    /\ ret' = continue_at
    /\ new_vertices' = <<>>
    /\ new_indices' = <<>>
    /\ vertex_map' = {}
    /\ chunk' = 0

Panic ==
    /\ pc' = "panic"
    /\ UNCHANGED <<ret, size, levels, vertices, indices, aabb, new_vertices,
                   new_indices, vertex_map, chunk, meshes, roles, handles, result>>

\* One chunk of the loop.  A chunk of fewer than three indices, or an index
\* with no vertex (unwrap of None), panics.
SubdivideStep ==
    /\ pc = "subdivide"
    /\ 3 * chunk < Len(indices)
    /\ IF Len(indices) - 3 * chunk < 3
       THEN Panic
       ELSE LET id_0 == indices[3 * chunk + 1]
                id_1 == indices[3 * chunk + 2]
                id_2 == indices[3 * chunk + 3]
            IN  IF ~(HasVertex(vertices, id_0) /\ HasVertex(vertices, id_1)
                        /\ HasVertex(vertices, id_2))
                THEN Panic
                ELSE LET r == SplitTriangle([map |-> vertex_map, verts |-> new_vertices],
                                            new_indices,
                                            vertices[id_0 + 1], vertices[id_1 + 1],
                                            vertices[id_2 + 1])
                     IN  /\ vertex_map' = r.map
                         /\ new_vertices' = r.verts
                         /\ new_indices' = r.inds
                         /\ chunk' = chunk + 1
                         /\ UNCHANGED <<pc, ret, size, levels, vertices, indices, aabb,
                                        meshes, roles, handles, result>>

\* After the loop: the caller's buffers are replaced by the new ones.
SubdivideFinish ==
    /\ pc = "subdivide"
    /\ 3 * chunk >= Len(indices)
    /\ vertices' = new_vertices
    /\ indices' = new_indices
    /\ pc' = ret
    /\ UNCHANGED <<ret, size, levels, aabb, new_vertices, new_indices, vertex_map,
                   chunk, meshes, roles, handles, result>>

-----------------------------------------------------------------------------
(* create_mesh *)

\* Mutant of create_mesh: three tangent floats per vertex.
create_mesh_three_tangents(vs, is, box) ==
    [vertices |-> vs,
     indices  |-> is,
     normals  |-> [i \in 1..Len(vs) |-> Vec(0, 1, 0)],
     tangents |-> [i \in 1..(Len(vs) * 3) |-> 0],
     aabb     |-> box]

\* The surface handed to the rendering server and the custom box set on it.
create_mesh(vs, is, box) ==
    [vertices |-> vs,
     indices  |-> is,
     normals  |-> [i \in 1..Len(vs) |-> Vec(0, 1, 0)],
     tangents |-> [i \in 1..(Len(vs) * 4) |-> 0],
     aabb     |-> box]

\* let <name> = Self::create_mesh(&vertices, &indices, aabb);
Register(name, role) ==
    /\ meshes' = Append(meshes, create_mesh(vertices, indices, aabb))
    /\ roles' = Append(roles, role)
    /\ handles' = [handles EXCEPT ![name] = Len(meshes) + 1]

-----------------------------------------------------------------------------
(* generate *)

Names == {"tile_mesh", "tile_inner_mesh", "filler_mesh", "filler_inner_mesh",
          "trim_mesh", "trim_inner_mesh", "cross_mesh", "seam_mesh"}

Role(shape, refined) == [shape |-> shape, refined |-> refined]

\* A block's two buffers are sized and filled; any failed resize or
\* out-of-bounds write panics.
Build(vs, is, continue_at) ==
    IF vs.ok /\ is.ok
    THEN /\ vertices' = vs.buf
         /\ indices' = is.buf
         /\ pc' = continue_at
    ELSE /\ pc' = "panic"
         /\ UNCHANGED <<vertices, indices>>

\* Mutant of TileBuild: the lattice is sized by levels, not by size.
TileBuildByLevels ==
    /\ pc = "tile_build"
    /\ Build(TileVertices(levels), TileIndices(levels), "tile_inner")
    /\ aabb' = IF pc' = "panic" THEN aabb ELSE PatchAabb(PatchVertRes(levels))
    /\ UNCHANGED <<ret, size, levels, new_vertices, new_indices, vertex_map, chunk,
                   meshes, roles, handles, result>>

TileBuild ==
    /\ pc = "tile_build"
    /\ Build(TileVertices(size), TileIndices(size), "tile_inner")
    /\ aabb' = IF pc' = "panic" THEN aabb ELSE PatchAabb(PatchVertRes(size))
    /\ UNCHANGED <<ret, size, levels, new_vertices, new_indices, vertex_map, chunk,
                   meshes, roles, handles, result>>

TileInner ==
    /\ pc = "tile_inner"
    /\ Register("tile_inner_mesh", Role("Tile", FALSE))
    /\ EnterSubdivide("tile_outer")
    /\ UNCHANGED <<size, levels, vertices, indices, aabb, result>>

TileOuter ==
    /\ pc = "tile_outer"
    /\ Register("tile_mesh", Role("Tile", TRUE))
    /\ pc' = "filler_build"
    /\ UNCHANGED <<ret, size, levels, vertices, indices, aabb, new_vertices,
                   new_indices, vertex_map, chunk, result>>

FillerBuild ==
    /\ pc = "filler_build"
    /\ Build(FillerVertices(size), FillerIndices(size), "filler_inner")
    /\ aabb' = IF pc' = "panic" THEN aabb ELSE PatchAabb(PatchVertRes(size))
    /\ UNCHANGED <<ret, size, levels, new_vertices, new_indices, vertex_map, chunk,
                   meshes, roles, handles, result>>

\* The block calls its two meshes tile_inner_mesh and tile_mesh and returns
\* (tile_mesh, tile_inner_mesh, aabb), bound to filler_mesh, filler_inner_mesh.
FillerInner ==
    /\ pc = "filler_inner"
    /\ Register("filler_inner_mesh", Role("Filler", FALSE))
    /\ EnterSubdivide("filler_outer")
    /\ UNCHANGED <<size, levels, vertices, indices, aabb, result>>

FillerOuter ==
    /\ pc = "filler_outer"
    /\ Register("filler_mesh", Role("Filler", TRUE))
    /\ pc' = "trim_build"
    /\ UNCHANGED <<ret, size, levels, vertices, indices, aabb, new_vertices,
                   new_indices, vertex_map, chunk, result>>

\* aabb is the immutable binding returned by the Filler block; the value of
\* each aabb.expand(..) is dropped, so the binding keeps the Filler box.
TrimBuild ==
    /\ pc = "trim_build"
    /\ Build(TrimVertices(size), TrimIndices(size), "trim_inner")
    /\ UNCHANGED <<ret, size, levels, aabb, new_vertices, new_indices, vertex_map,
                   chunk, meshes, roles, handles, result>>

\* The block calls its two meshes filler_inner_mesh and filler_mesh and returns
\* (filler_mesh, filler_inner_mesh), bound to trim_mesh, trim_inner_mesh.
TrimInner ==
    /\ pc = "trim_inner"
    /\ Register("trim_inner_mesh", Role("Trim", FALSE))
    /\ EnterSubdivide("trim_outer")
    /\ UNCHANGED <<size, levels, vertices, indices, aabb, result>>

TrimOuter ==
    /\ pc = "trim_outer"
    /\ Register("trim_mesh", Role("Trim", TRUE))
    /\ pc' = "cross_build"
    /\ UNCHANGED <<ret, size, levels, vertices, indices, aabb, new_vertices,
                   new_indices, vertex_map, chunk, result>>

CrossBuild ==
    /\ pc = "cross_build"
    /\ Build(CrossVertices(size), CrossIndices(size), "cross_mesh")
    /\ UNCHANGED <<ret, size, levels, aabb, new_vertices, new_indices, vertex_map,
                   chunk, meshes, roles, handles, result>>

CrossMesh ==
    /\ pc = "cross_mesh"
    /\ Register("cross_mesh", Role("Cross", FALSE))
    /\ pc' = "seam_build"
    /\ UNCHANGED <<ret, size, levels, vertices, indices, aabb, new_vertices,
                   new_indices, vertex_map, chunk, result>>

SeamBuild ==
    /\ pc = "seam_build"
    /\ Build(SeamVertices(size), SeamIndices(size), "seam_mesh")
    /\ UNCHANGED <<ret, size, levels, aabb, new_vertices, new_indices, vertex_map,
                   chunk, meshes, roles, handles, result>>

SeamMesh ==
    /\ pc = "seam_mesh"
    /\ Register("seam_mesh", Role("Seam", FALSE))
    /\ pc' = "return"
    /\ UNCHANGED <<ret, size, levels, vertices, indices, aabb, new_vertices,
                   new_indices, vertex_map, chunk, result>>

\* Mutant of ReturnList: the unrefined meshes first.
ReturnListInnerFirst(h) ==
    << h["tile_inner_mesh"], h["filler_inner_mesh"], h["trim_inner_mesh"], h["cross_mesh"],
       h["seam_mesh"], h["tile_mesh"], h["filler_mesh"], h["trim_mesh"] >>

\* The vec! returned by generate.
ReturnList(h) ==
    << h["tile_mesh"], h["filler_mesh"], h["trim_mesh"], h["cross_mesh"], h["seam_mesh"],
       h["tile_inner_mesh"], h["filler_inner_mesh"], h["trim_inner_mesh"] >>

Return ==
    /\ pc = "return"
    /\ result' = ReturnList(handles)
    /\ pc' = "done"
    /\ UNCHANGED <<ret, size, levels, vertices, indices, aabb, new_vertices,
                   new_indices, vertex_map, chunk, meshes, roles, handles>>

-----------------------------------------------------------------------------
(* Specifications *)

\* A call generate(size, levels) on a back end with no meshes.
Init ==
    /\ size \in Sizes
    /\ levels \in Levels
    /\ pc = "tile_build"
    /\ ret = "none"
    /\ vertices = <<>>
    /\ indices = <<>>
    /\ aabb = NoAabb
    /\ new_vertices = <<>>
    /\ new_indices = <<>>
    /\ vertex_map = {}
    /\ chunk = 0
    /\ meshes = <<>>
    /\ roles = <<>>
    /\ handles = [n \in Names |-> 0]
    /\ result = <<>>

Next ==
    \/ TileBuild
    \/ TileInner
    \/ TileOuter
    \/ FillerBuild
    \/ FillerInner
    \/ FillerOuter
    \/ TrimBuild
    \/ TrimInner
    \/ TrimOuter
    \/ CrossBuild
    \/ CrossMesh
    \/ SeamBuild
    \/ SeamMesh
    \/ Return
    \/ SubdivideStep
    \/ SubdivideFinish

Spec == Init /\ [][Next]_vars

\* Vertex buffers for direct calls of subdivide_half: three edges of unequal
\* length, two equally long longest edges, and a repeated position.  (The
\* lattices of generate are inputs of SpecSubdivide as well.)
SubdivideVertexBuffers ==
    { << Vec(0, 0, 0), Vec(2, 0, 0), Vec(0, 0, 1) >>,
      << Vec(0, 0, 0), Vec(2, 0, 0), Vec(1, 0, 2) >>,
      << Vec(0, 0, 0), Vec(2, 0, 0), Vec(0, 0, 0) >> }

\* Every list of at most MaxTris triangles over the indices of vs.
TriangleLists(vs) ==
    UNION { [1..(3 * t) -> 0..(Len(vs) - 1)] : t \in 0..MaxTris }

\* A direct call subdivide_half(&mut vertices, &mut indices).
InitSubdivide ==
    /\ vertices \in SubdivideVertexBuffers
    /\ indices \in TriangleLists(vertices)
    /\ pc = "subdivide"
    /\ ret = "returned"
    /\ size = 0
    /\ levels = 1
    /\ aabb = NoAabb
    /\ new_vertices = <<>>
    /\ new_indices = <<>>
    /\ vertex_map = {}
    /\ chunk = 0
    /\ meshes = <<>>
    /\ roles = <<>>
    /\ handles = [n \in Names |-> 0]
    /\ result = <<>>

\* A second direct call in the same process, after the first has returned:
\* subdivide_half on one triangle (0, 1, 2) with BC its longest edge.
SubdivideAgain ==
    /\ pc = "returned"
    /\ vertices' = << Vec(0, 0, 0), Vec(2, 0, 0), Vec(0, 0, 1) >>
    /\ indices' = <<0, 1, 2>>
    /\ EnterSubdivide("returned_again")
    /\ UNCHANGED <<size, levels, aabb, meshes, roles, handles, result>>

NextSubdivide ==
    \/ Next
    \/ SubdivideAgain

\* Every run of subdivide_half: the three of generate and direct calls.
SpecSubdivide == (Init \/ InitSubdivide) /\ [][NextSubdivide]_vars

-----------------------------------------------------------------------------
(* Vocabulary of the properties *)

\* generate has ended: it returned, or it panicked.
Ended == pc \in {"done", "panic"}

Refinable == {"Tile", "Filler", "Trim"}

AllRoles == {Role(s, r) : s \in Refinable, r \in BOOLEAN}
                \cup {Role("Cross", FALSE), Role("Seam", FALSE)}

\* The created meshes (positions in the back end's list) with a given role.
Created(role) == {i \in 1..Len(meshes) : roles[i] = role}

AllEightCreated == \A role \in AllRoles : Created(role) # {}

\* The role expected at each position of the returned list.
CatalogOrder ==
    << Role("Tile", TRUE), Role("Filler", TRUE), Role("Trim", TRUE),
       Role("Cross", FALSE), Role("Seam", FALSE),
       Role("Tile", FALSE), Role("Filler", FALSE), Role("Trim", FALSE) >>

TriangleCount(m) == Len(m.indices) \div 3

\* The three corner positions of triangle t (1-based) of mesh m.
Corner(m, t, k) == m.vertices[m.indices[3 * (t - 1) + k] + 1]

ValidIndices(m) ==
    /\ Len(m.indices) % 3 = 0
    /\ \A j \in 1..Len(m.indices) : 0 <= m.indices[j] /\ m.indices[j] < Len(m.vertices)

\* Twice the signed area of the projection of (a, b, c) on the XZ plane.
SignedAreaXZ(a, b, c) ==
    (b[1] - a[1]) * (c[3] - a[3]) - (b[3] - a[3]) * (c[1] - a[1])

Sign(n) == IF n > 0 THEN 1 ELSE IF n < 0 THEN 0 - 1 ELSE 0

TriangleSign(m, t) == Sign(SignedAreaXZ(Corner(m, t, 1), Corner(m, t, 2), Corner(m, t, 3)))

UniformWinding(m) ==
    \A t1, t2 \in 1..TriangleCount(m) : TriangleSign(m, t1) = TriangleSign(m, t2)

InsideBox(v, box) ==
    \A k \in 1..3 : box.position[k] <= v[k] /\ v[k] <= box.position[k] + box.size[k]

VerticesInsideBox(m) == \A j \in 1..Len(m.vertices) : InsideBox(m.vertices[j], m.aabb)

-----------------------------------------------------------------------------
(* C1 - C5 *)

\* C1: for every positive tile_resolution a call of generate runs to
\* completion (no out-of-bounds access, no failed unwrap) and returns a list of
\* exactly 8 mesh handles.
C1_GenerateCompletes ==
    size > 0 => /\ pc # "panic"
                /\ pc = "done" => Len(result) = 8

\* C2: the returned list holds, by position, refined Tile, refined Filler,
\* refined Trim, Cross, Seam, unrefined Tile, unrefined Filler, unrefined Trim;
\* positions k and k + 5 (k = 0, 1, 2) are the refined and the unrefined mesh of
\* one shape.
C2_CatalogOrder ==
    pc = "done" =>
        /\ Len(result) = 8
        /\ \A k \in 1..8 : /\ result[k] \in 1..Len(meshes)
                           /\ roles[result[k]] = CatalogOrder[k]
        /\ \A k \in 1..3 : /\ roles[result[k]].shape = roles[result[k + 5]].shape
                           /\ roles[result[k]].refined
                           /\ ~roles[result[k + 5]].refined

C2_Witness ==
    /\ pc = "done"
    /\ Len(meshes) = 8
    /\ result # <<>>

\* C3: for every positive tile_resolution all 8 meshes are registered, and in
\* each the index count is a multiple of 3 and every index is >= 0 and < the
\* vertex count.
C3_IndexValidity ==
    size > 0 => /\ \A i \in 1..Len(meshes) : ValidIndices(meshes[i])
                /\ Ended => AllEightCreated

\* C4: for every positive tile_resolution, within each of the 8 registered
\* meshes the signed XZ area of every triangle has the same sign.
C4_WindingConsistency ==
    size > 0 => /\ \A i \in 1..Len(meshes) : UniformWinding(meshes[i])
                /\ Ended => AllEightCreated

\* C5: for every positive tile_resolution, every vertex of each of the 8
\* registered meshes lies inside the bounding box registered with that mesh.
C5_BoundingContainment ==
    size > 0 => /\ \A i \in 1..Len(meshes) : VerticesInsideBox(meshes[i])
                /\ Ended => AllEightCreated

-----------------------------------------------------------------------------
(* C6 - C10 *)

\* The loop of subdivide_half has visited every chunk.
LoopEnded == pc = "subdivide" /\ 3 * chunk >= Len(indices)

InputTriangle(c) == <<indices[3 * c + 1], indices[3 * c + 2], indices[3 * c + 3]>>

\* The undirected edges of the first n input triangles, as sets of indices.
InputEdges(n) ==
    UNION { { {InputTriangle(c)[1], InputTriangle(c)[2]},
              {InputTriangle(c)[2], InputTriangle(c)[3]},
              {InputTriangle(c)[3], InputTriangle(c)[1]} } : c \in 0..(n - 1) }

\* The undirected edge of input triangle c that the pass bisected.
BisectedEdge(c) ==
    LET t    == InputTriangle(c)
        edge == SplitEdge(vertices[t[1] + 1], vertices[t[2] + 1], vertices[t[3] + 1])
    IN  CASE edge = "ab" -> {t[1], t[2]}
          [] edge = "bc" -> {t[2], t[3]}
          [] OTHER       -> {t[3], t[1]}

\* The output index of the midpoint welded for input triangle c.
MidpointIndex(c) == new_indices[6 * c + 2]

\* C7: after the triangles visited so far (all of them at the end of the
\* pass) the new vertex count is at most the old vertex count plus the number
\* of distinct undirected edges of those triangles, and two triangles that
\* bisect the same edge use one midpoint vertex.
C7_WeldBound ==
    pc = "subdivide" =>
        /\ Len(new_vertices) <= Len(vertices) + Cardinality(InputEdges(chunk))
        /\ \A c1, c2 \in 0..(chunk - 1) :
              BisectedEdge(c1) = BisectedEdge(c2) => MidpointIndex(c1) = MidpointIndex(c2)

C7_Witness ==
    /\ LoopEnded
    /\ \E c1, c2 \in 0..(chunk - 1) :
          /\ InputTriangle(c1) # InputTriangle(c2)
          /\ Cardinality(BisectedEdge(c1)) = 2
          /\ BisectedEdge(c1) = BisectedEdge(c2)
          /\ MidpointIndex(c1) = MidpointIndex(c2)

\* C8: for every positive tile_resolution the Seam mesh is registered, the
\* last entry of its index buffer is 0, and at every other position the loop's
\* value stays below the vertex count.
C8_SeamClosure ==
    size > 0 =>
        /\ \A i \in Created(Role("Seam", FALSE)) :
              LET m == meshes[i]
              IN  /\ Len(m.indices) > 0
                  /\ m.indices[Len(m.indices)] = 0
                  /\ \A j \in 1..(Len(m.indices) - 1) : m.indices[j] < Len(m.vertices)
        /\ Ended => Created(Role("Seam", FALSE)) # {}

\* The triangles of a mesh, as the set of its index triples.
TriangleSet(m) ==
    { <<m.indices[3 * t - 2], m.indices[3 * t - 1], m.indices[3 * t]>> :
        t \in 1..TriangleCount(m) }

\* C9: for positive size the unrefined Tile mesh has (size+1)^2 vertices, the
\* one at index y*(size+1)+x at (x, 0, y), and 6*size^2 indices: per cell (x, y)
\* exactly the triangles [(x,y),(x+1,y+1),(x,y+1)] and [(x,y),(x+1,y),(x+1,y+1)].
C9_TileLattice ==
    size > 0 =>
        \A i \in Created(Role("Tile", FALSE)) :
            LET m == meshes[i]
                w == size + 1
                at(x, y) == y * w + x
            IN  /\ Len(m.vertices) = w * w
                /\ \A x, y \in 0..size :
                      m.vertices[at(x, y) + 1] = <<x * Unit, 0, y * Unit>>
                /\ Len(m.indices) = 6 * size * size
                /\ Cardinality(TriangleSet(m)) = 2 * size * size
                /\ TriangleSet(m) =
                      UNION { { <<at(x, y), at(x + 1, y + 1), at(x, y + 1)>>,
                                <<at(x, y), at(x + 1, y), at(x + 1, y + 1)>> } :
                              x \in 0..(size - 1), y \in 0..(size - 1) }

C9_Witness ==
    /\ size = 2
    /\ \E i \in Created(Role("Tile", FALSE)) :
          Len(meshes[i].vertices) = 9 /\ Len(meshes[i].indices) = 24

\* C10: for positive size the refined Tile mesh has (size+1)^2 + size^2
\* vertices, the lattice vertices and one midpoint per cell diagonal, each once,
\* and 12*size^2 indices; 5 vertices and 12 indices for size 1.
C10_RefinedTile ==
    size > 0 =>
        \A i \in Created(Role("Tile", TRUE)) :
            LET m == meshes[i]
                lattice == { <<x * Unit, 0, y * Unit>> : x \in 0..size, y \in 0..size }
                centers == { <<x * Unit + Unit \div 2, 0, y * Unit + Unit \div 2>> :
                                x \in 0..(size - 1), y \in 0..(size - 1) }
            IN  /\ Len(m.vertices) = (size + 1) * (size + 1) + size * size
                /\ Len(m.indices) = 12 * size * size
                /\ { m.vertices[j] : j \in 1..Len(m.vertices) } = lattice \cup centers
                /\ size = 1 => Len(m.vertices) = 5 /\ Len(m.indices) = 12

C10_Witness ==
    /\ size = 1
    /\ \E i \in Created(Role("Tile", TRUE)) :
          Len(meshes[i].vertices) = 5 /\ Len(meshes[i].indices) = 12

-----------------------------------------------------------------------------
(* C11 - C13 *)

\* C11: for positive size the unrefined Filler mesh is registered with the
\* patch lattice of the unrefined Tile mesh: (size+1)^2 vertices and 6*size^2
\* indices, identical to Tile's buffers.
C11_FillerLattice ==
    size > 0 =>
        /\ \A i \in Created(Role("Filler", FALSE)) :
              /\ Len(meshes[i].vertices) = (size + 1) * (size + 1)
              /\ Len(meshes[i].indices) = 6 * size * size
              /\ \A j \in Created(Role("Tile", FALSE)) :
                    /\ meshes[i].vertices = meshes[j].vertices
                    /\ meshes[i].indices = meshes[j].indices
        /\ Ended => Created(Role("Filler", FALSE)) # {}

EmptyBuffers(m) == Len(m.vertices) = 0 /\ Len(m.indices) = 0

ZeroSizeLengths(role) ==
    CASE role.refined                 -> <<0, 0>>
      [] role = Role("Tile", FALSE)   -> <<1, 0>>
      [] role = Role("Filler", FALSE) -> <<1, 0>>
      [] role = Role("Trim", FALSE)   -> <<8, 0>>
      [] role = Role("Cross", FALSE)  -> <<8, 6>>
      [] OTHER                        -> <<8, 12>>

C13_NoLeakedMesh ==
    Ended =>
        /\ { result[k] : k \in 1..Len(result) } = 1..Len(meshes)
        /\ Len(result) = 8
        /\ Len(meshes) = 8

-----------------------------------------------------------------------------
(* C14 *)

\* The buffers a block of generate builds for tile_resolution sz.
BlockBuffers(shape, sz) ==
    CASE shape = "Tile"   -> [vertices |-> TileVertices(sz).buf, indices |-> TileIndices(sz).buf]
      [] shape = "Filler" -> [vertices |-> FillerVertices(sz).buf, indices |-> FillerIndices(sz).buf]
      [] shape = "Trim"   -> [vertices |-> TrimVertices(sz).buf, indices |-> TrimIndices(sz).buf]
      [] shape = "Cross"  -> [vertices |-> CrossVertices(sz).buf, indices |-> CrossIndices(sz).buf]
      [] OTHER            -> [vertices |-> SeamVertices(sz).buf, indices |-> SeamIndices(sz).buf]

\* The mesh of a role as a function of tile_resolution alone.
MeshOfSize(role, sz) ==
    LET base == BlockBuffers(role.shape, sz)
        bufs == IF role.refined THEN subdivide_half(base.vertices, base.indices) ELSE base
    IN  create_mesh(bufs.vertices, bufs.indices, PatchAabb(PatchVertRes(sz)))

\* The roles in the order generate creates them.
CreationOrder ==
    << Role("Tile", FALSE), Role("Tile", TRUE), Role("Filler", FALSE), Role("Filler", TRUE),
       Role("Trim", FALSE), Role("Trim", TRUE), Role("Cross", FALSE), Role("Seam", FALSE) >>

\* C14: for a fixed size the outputs of generate do not depend on levels:
\* the meshes created (vertices, indices, normals, tangents, bounding box) and
\* their order are a function of size alone, and so is the returned list.
C14_LevelsIndependence ==
    /\ Len(meshes) <= 8
    /\ roles = SubSeq(CreationOrder, 1, Len(meshes))
    /\ \A i \in 1..Len(meshes) : meshes[i] = MeshOfSize(roles[i], size)
    /\ result \in {<<>>, <<2, 4, 6, 7, 8, 1, 3, 5>>}
    /\ pc = "done" <=> result # <<>>

C14_Witness ==
    /\ levels > 1
    /\ size > 0
    /\ \E i \in Created(Role("Tile", TRUE)) : Len(meshes[i].indices) > 0

-----------------------------------------------------------------------------
(* C15, C16 *)

\* Where subdivide_half returns to when it refines the buffers of a shape.
AfterPass(shape) ==
    CASE shape = "Tile"   -> "tile_outer"
      [] shape = "Filler" -> "filler_outer"
      [] OTHER            -> "trim_outer"

\* C15: in a generate call with positive size, subdivide_half runs only on
\* the Tile, Filler or Trim buffers, after the unrefined mesh of the shape is
\* registered and before its refined mesh is; when the call has ended it has
\* run once for each of the three, and Cross and Seam are each registered once.
C15_ThreePasses ==
    size > 0 =>
        /\ pc = "subdivide" =>
              \E s \in Refinable :
                 /\ ret = AfterPass(s)
                 /\ Cardinality(Created(Role(s, FALSE))) = 1
                 /\ Created(Role(s, TRUE)) = {}
        /\ Ended =>
              /\ \A s \in Refinable :
                    /\ Cardinality(Created(Role(s, FALSE))) = 1
                    /\ Cardinality(Created(Role(s, TRUE))) = 1
                    /\ \A i \in Created(Role(s, FALSE)), j \in Created(Role(s, TRUE)) : i < j
              /\ Cardinality(Created(Role("Cross", FALSE))) = 1
              /\ Cardinality(Created(Role("Seam", FALSE))) = 1

\* C16: every step that creates a mesh registers the vertex and index
\* buffers as they are, one normal (0, 1, 0) per vertex, four tangent floats 0
\* per vertex, and the bounding box given.
C16_CreateMesh ==
    [][Len(meshes') = Len(meshes) + 1 =>
          LET m == meshes'[Len(meshes')]
              n == Len(vertices)
          IN  /\ m.vertices = vertices
              /\ m.indices = indices
              /\ m.aabb = aabb
              /\ DOMAIN m.normals = 1..n
              /\ \A i \in 1..n : m.normals[i] = <<0, Unit, 0>>
              /\ DOMAIN m.tangents = 1..(4 * n)
              /\ \A i \in 1..(4 * n) : m.tangents[i] = 0
              /\ SubSeq(meshes', 1, Len(meshes)) = meshes]_vars

C16_Witness ==
    \E i \in 1..Len(meshes) :
        /\ Len(meshes[i].vertices) > 1
        /\ Len(meshes[i].normals) = Len(meshes[i].vertices)
        /\ Len(meshes[i].tangents) = 4 * Len(meshes[i].vertices)
        /\ Len(meshes[i].indices) > 0

-----------------------------------------------------------------------------
(* C17 - C20 *)

\* Corner k (1, 2, 3 for A, B, C) of input triangle c (0-based).
InputCorner(c, k) == vertices[indices[3 * c + k] + 1]

\* Position j (1..6) of the two triangles emitted for input triangle c.
Emitted(c, j) == new_vertices[new_indices[6 * c + j] + 1]

SquaredDistance(p, q) ==
    (p[1] - q[1]) * (p[1] - q[1]) + (p[2] - q[2]) * (p[2] - q[2])
        + (p[3] - q[3]) * (p[3] - q[3])

\* The first longest edge of (a, b, c) in the order AB, BC, CA, as
\* <<start, end, apex>>.
FirstLongestEdge(a, b, c) ==
    LET ab == SquaredDistance(a, b)
        bc == SquaredDistance(b, c)
        ca == SquaredDistance(c, a)
    IN  IF ab >= bc /\ ab >= ca THEN <<a, b, c>>
        ELSE IF bc >= ca THEN <<b, c, a>>
        ELSE <<c, a, b>>

HalfWay(p, q) == <<(p[1] + q[1]) \div 2, (p[2] + q[2]) \div 2, (p[3] + q[3]) \div 2>>

\* C17: every triangle (A, B, C) visited by subdivide_half is split at the
\* midpoint of a longest edge, the first of the longest in the order AB, BC, CA:
\* the emitted triangles start at the first end of that edge, followed by its
\* midpoint.
C17_LongestEdge ==
    pc = "subdivide" =>
        \A c \in 0..(chunk - 1) :
            LET e == FirstLongestEdge(InputCorner(c, 1), InputCorner(c, 2), InputCorner(c, 3))
            IN  /\ SquaredDistance(e[1], e[2]) >= SquaredDistance(e[2], e[3])
                /\ SquaredDistance(e[1], e[2]) >= SquaredDistance(e[3], e[1])
                /\ Emitted(c, 1) = e[1]
                /\ Emitted(c, 2) = HalfWay(e[1], e[2])
                /\ Emitted(c, 4) = HalfWay(e[1], e[2])

\* A visited triangle whose two longest edges BC and CA are equal and longer
\* than AB: it is split on BC.
C17_Witness ==
    /\ pc = "subdivide"
    /\ \E c \in 0..(chunk - 1) :
          LET a == InputCorner(c, 1)
              b == InputCorner(c, 2)
              cc == InputCorner(c, 3)
          IN  /\ SquaredDistance(b, cc) = SquaredDistance(cc, a)
              /\ SquaredDistance(b, cc) > SquaredDistance(a, b)
              /\ Emitted(c, 1) = b
              /\ Emitted(c, 2) = HalfWay(b, cc)
              /\ HalfWay(b, cc) # HalfWay(cc, a)

\* C18: for every visited triangle, with S, E the ends of the split edge in
\* the order of the triangle, P the third corner and M the midpoint, exactly the
\* triangles (S, M, P) and (M, E, P) are emitted, and both have the orientation
\* (sign of the signed XZ area) of the input triangle.
C18_ChildTriangles ==
    pc = "subdivide" =>
        /\ Len(new_indices) = 6 * chunk
        /\ \A c \in 0..(chunk - 1) :
              LET a == InputCorner(c, 1)
                  b == InputCorner(c, 2)
                  cc == InputCorner(c, 3)
                  e == FirstLongestEdge(a, b, cc)
                  m == HalfWay(e[1], e[2])
              IN  /\ <<Emitted(c, 1), Emitted(c, 2), Emitted(c, 3)>> = <<e[1], m, e[3]>>
                  /\ <<Emitted(c, 4), Emitted(c, 5), Emitted(c, 6)>> = <<m, e[2], e[3]>>
                  /\ Sign(SignedAreaXZ(Emitted(c, 1), Emitted(c, 2), Emitted(c, 3)))
                        = Sign(SignedAreaXZ(a, b, cc))
                  /\ Sign(SignedAreaXZ(Emitted(c, 4), Emitted(c, 5), Emitted(c, 6)))
                        = Sign(SignedAreaXZ(a, b, cc))

\* A visited clockwise triangle split on CA, with two clockwise children.
C18_Witness ==
    /\ pc = "subdivide"
    /\ \E c \in 0..(chunk - 1) :
          LET a == InputCorner(c, 1)
              b == InputCorner(c, 2)
              cc == InputCorner(c, 3)
          IN  /\ SignedAreaXZ(a, b, cc) < 0
              /\ SquaredDistance(cc, a) > SquaredDistance(a, b)
              /\ SquaredDistance(cc, a) > SquaredDistance(b, cc)
              /\ <<Emitted(c, 1), Emitted(c, 3), Emitted(c, 5)>> = <<cc, b, a>>
              /\ SignedAreaXZ(Emitted(c, 1), Emitted(c, 2), Emitted(c, 3)) < 0
              /\ SignedAreaXZ(Emitted(c, 4), Emitted(c, 5), Emitted(c, 6)) < 0

\* Each coordinate times 10^5, truncated toward zero to an integer.
QuantizedKey(p) ==
    LET q(x) == IF x >= 0 THEN (x * 100000) \div Unit ELSE 0 - ((0 - x) * 100000) \div Unit
    IN  <<q(p[1]), q(p[2]), q(p[3])>>

\* The positions subdivide_half can pass to find_or_add_vertex.
Candidates ==
    { vertices[i] : i \in 1..Len(vertices) }
        \cup { HalfWay(vertices[i], vertices[j]) : i, j \in 1..Len(vertices) }

\* C19: on the weld table and new vertex buffer of any point of a pass, for
\* any position: if the quantized key of the position is in the table,
\* find_or_add_vertex returns the stored index and leaves table and buffer as
\* they are; otherwise it appends the position, records key -> previous buffer
\* length, and returns that length.
C19_FindOrAdd ==
    pc = "subdivide" =>
        \A p \in Candidates :
            LET r      == find_or_add_vertex([map |-> vertex_map, verts |-> new_vertices], p)
                stored == {e \in vertex_map : e[1] = QuantizedKey(p)}
            IN  IF stored # {}
                THEN /\ \A e \in stored : r.index = e[2]
                     /\ r.map = vertex_map
                     /\ r.verts = new_vertices
                ELSE /\ r.verts = Append(new_vertices, p)
                     /\ r.map = vertex_map \cup {<<QuantizedKey(p), Len(new_vertices)>>}
                     /\ r.index = Len(new_vertices)

\* A point of a pass where one position is in the table and another is not.
C19_Witness ==
    /\ pc = "subdivide"
    /\ Len(new_vertices) > 0
    /\ \E p \in Candidates : \E e \in vertex_map : e[1] = QuantizedKey(p)
    /\ \E p \in Candidates : \A e \in vertex_map : e[1] # QuantizedKey(p)

\* The undirected edges, as sets of indices, that a pass over the buffers
\* vs, is bisects.
BisectedEdgesOf(vs, is) ==
    { LET t == <<is[3 * k + 1], is[3 * k + 2], is[3 * k + 3]>>
          e == FirstLongestEdge(vs[t[1] + 1], vs[t[2] + 1], vs[t[3] + 1])
      IN  IF e[1] = vs[t[1] + 1] /\ e[2] = vs[t[2] + 1] /\ e[3] = vs[t[3] + 1] THEN {t[1], t[2]}
          ELSE IF e[1] = vs[t[2] + 1] /\ e[2] = vs[t[3] + 1] /\ e[3] = vs[t[1] + 1] THEN {t[2], t[3]}
          ELSE {t[3], t[1]}
      : k \in 0..((Len(is) \div 3) - 1) }

\* C20: for every positive size, each of the Tile, Filler and Trim buffers
\* is refined by a pass, at the end of a pass the vertex count is the count
\* before plus the number of distinct edges the pass bisected, and so it is for
\* the pass over the Trim buffers that generate builds.
C20_VertexGrowth ==
    size > 0 =>
        /\ LoopEnded =>
              Len(new_vertices)
                  = Len(vertices) + Cardinality({BisectedEdge(c) : c \in 0..(chunk - 1)})
        /\ Ended => \A s \in Refinable : Created(Role(s, TRUE)) # {}
        /\ LET trim == BlockBuffers("Trim", size)
           IN  Len(subdivide_half(trim.vertices, trim.indices).vertices)
                  = Len(trim.vertices)
                       + Cardinality(BisectedEdgesOf(trim.vertices, trim.indices))

-----------------------------------------------------------------------------
(* C21 - C23 *)

\* Every triangle of arm k of a Trim mesh of tile_resolution sz uses only
\* the vertex pairs of arm k: arm k has the sz + 1 pairs k (sz + 1) ..
\* k (sz + 1) + sz and the 2 sz triangles 2 sz k + 1 .. 2 sz (k + 1).
TrimArmsApart(m, sz) ==
    \A t \in 1..TriangleCount(m) :
        \A j \in 1..3 :
            m.indices[3 * (t - 1) + j] \div (2 * (sz + 1)) = (t - 1) \div (2 * sz)

\* C21: for positive size the unrefined Trim mesh is registered with
\* 8 (size + 1) vertices and 24 size indices, and no triangle of it uses vertex
\* pairs of two arms.
C21_TrimArms ==
    size > 0 =>
        /\ \A i \in Created(Role("Trim", FALSE)) :
              /\ Len(meshes[i].vertices) = 8 * (size + 1)
              /\ Len(meshes[i].indices) = 24 * size
              /\ TrimArmsApart(meshes[i], size)
        /\ Ended => Created(Role("Trim", FALSE)) # {}

MinOf(S) == CHOOSE x \in S : \A y \in S : x <= y

\* The unit cell of the XZ plane a triangle lies in: its least x and z.
TriangleCell(m, t) ==
    << MinOf({Corner(m, t, k)[1] : k \in 1..3}), MinOf({Corner(m, t, k)[3] : k \in 1..3}) >>

\* The triangles of the horizontal arm of a Cross mesh: the first loop
\* writes 2 sz + 1 cells of two triangles.
CrossHorizontal(m, sz) == {t \in 1..TriangleCount(m) : t <= 2 * (2 * sz + 1)}

\* No cell has triangles of both arms, and the center cell has the two
\* triangles of one quad.
CrossCenterOnce(m, sz) ==
    /\ \A t1 \in CrossHorizontal(m, sz) :
          \A t2 \in (1..TriangleCount(m)) \ CrossHorizontal(m, sz) :
              TriangleCell(m, t1) # TriangleCell(m, t2)
    /\ Cardinality({t \in 1..TriangleCount(m) : TriangleCell(m, t) = <<0, 0>>}) = 2

\* C22: for positive size the Cross mesh is registered with 8 (size + 1)
\* vertices and 24 size + 6 indices, no unit cell is covered by triangles of
\* both arms, and the center cell is triangulated once.
C22_CrossCenter ==
    size > 0 =>
        /\ \A i \in Created(Role("Cross", FALSE)) :
              /\ Len(meshes[i].vertices) = 8 * (size + 1)
              /\ Len(meshes[i].indices) = 24 * size + 6
              /\ CrossCenterOnce(meshes[i], size)
        /\ Ended => Created(Role("Cross", FALSE)) # {}

\* C23: for positive size the Seam mesh is registered with 4 (4 size + 2)
\* vertices and as many triangles, 3 * 4 (4 size + 2) indices, the length of
\* the index buffer the Seam block builds.
C23_SeamCounts ==
    size > 0 =>
        /\ \A i \in Created(Role("Seam", FALSE)) :
              /\ Len(meshes[i].vertices) = 4 * (4 * size + 2)
              /\ Len(meshes[i].indices) = 3 * 4 * (4 * size + 2)
        /\ Ended => Created(Role("Seam", FALSE)) # {}
        /\ Len(BlockBuffers("Seam", size).indices) = 3 * 4 * (4 * size + 2)

-----------------------------------------------------------------------------
(* C24 *)

\* C24: at every point of every subdivide_half call, the weld table and
\* the output buffers are those of a pass that started empty over the chunks
\* visited so far of this call's own input buffers, whatever calls came before;
\* at the end of the loop the output is a function of the input buffers alone.
C24_PassIsolation ==
    pc = "subdivide" =>
        /\ [map |-> vertex_map, verts |-> new_vertices, inds |-> new_indices]
              = SubdividePass(vertices, indices, 0, chunk,
                              [map |-> {}, verts |-> <<>>, inds |-> <<>>])
        /\ LoopEnded =>
              /\ new_vertices = subdivide_half(vertices, indices).vertices
              /\ new_indices = subdivide_half(vertices, indices).indices

\* The end of a second call, made after another call has left its table
\* and buffers behind: the output is that of a first call on the triangle.
C24_Witness ==
    /\ LoopEnded
    /\ ret = "returned_again"
    /\ new_indices = <<1, 3, 0, 3, 2, 0>>
    /\ Len(new_vertices) = 4

-----------------------------------------------------------------------------
(* C25 *)

\* v lies on the segment from p to q, strictly between its ends.
StrictlyInside(v, p, q) ==
    LET d == Sub(q, p)
        w == Sub(v, p)
        along == w[1] * d[1] + w[2] * d[2] + w[3] * d[3]
    IN  /\ w[1] * d[3] = w[3] * d[1]
        /\ w[1] * d[2] = w[2] * d[1]
        /\ w[2] * d[3] = w[3] * d[2]
        /\ 0 < along
        /\ along < LengthSquared(d)

\* The index pair of edge k (1: AB, 2: BC, 3: CA) of triangle t.
EdgeIndices(m, t, k) ==
    {m.indices[3 * (t - 1) + k], m.indices[3 * (t - 1) + (k % 3) + 1]}

\* No vertex lies strictly inside an edge of a triangle, and no edge is
\* used by more than two triangles.
CrackFree(m) ==
    /\ \A t \in 1..TriangleCount(m) : \A k \in 1..3 : \A j \in 1..Len(m.vertices) :
          ~StrictlyInside(m.vertices[j], Corner(m, t, k), Corner(m, t, (k % 3) + 1))
    /\ \A t \in 1..TriangleCount(m) : \A k \in 1..3 :
          Cardinality({u \in 1..TriangleCount(m) :
                          \E l \in 1..3 : EdgeIndices(m, u, l) = EdgeIndices(m, t, k)}) <= 2

\* C25: for positive size the refined Tile and the refined Trim mesh are
\* registered and crack-free.
C25_CrackFree ==
    size > 0 =>
        /\ \A s \in {"Tile", "Trim"} : \A i \in Created(Role(s, TRUE)) : CrackFree(meshes[i])
        /\ Ended => \A s \in {"Tile", "Trim"} : Created(Role(s, TRUE)) # {}

-----------------------------------------------------------------------------
(* C26 - C28 *)

\* The k-th position handed to the weld by the chunks visited so far: each
\* input triangle contributes A, B, C and then the midpoint of its split edge.
UsedPosition(k) ==
    LET c == (k - 1) \div 4
        r == (k - 1) % 4
        e == FirstLongestEdge(InputCorner(c, 1), InputCorner(c, 2), InputCorner(c, 3))
    IN  IF r < 3 THEN InputCorner(c, r + 1) ELSE HalfWay(e[1], e[2])

\* The uses whose quantized position was not used before.
FirstUses ==
    {k \in 1..(4 * chunk) :
        \A j \in 1..(k - 1) : QuantizedKey(UsedPosition(j)) # QuantizedKey(UsedPosition(k))}

\* C26: at every point of a pass the new vertex buffer is the sequence of
\* the distinct quantized positions used so far, in the order of their first
\* use; at the end of the loop this is the output vertex buffer.
C26_FirstUseOrder ==
    pc = "subdivide" =>
        LET first == FirstUses
        IN  /\ Len(new_vertices) = Cardinality(first)
            /\ \A k \in first :
                  new_vertices[Cardinality({j \in first : j <= k})] = UsedPosition(k)

\* The end of a pass over a buffer with a vertex no triangle uses, two used
\* vertices at one position, and a used vertex that gets another index.
C26_Witness ==
    /\ LoopEnded
    /\ chunk > 0
    /\ \E i \in 0..(Len(vertices) - 1) : \A j \in 1..Len(indices) : indices[j] # i
    /\ \E j1, j2 \in 1..Len(indices) :
          /\ indices[j1] # indices[j2]
          /\ vertices[indices[j1] + 1] = vertices[indices[j2] + 1]
    /\ \E j \in 1..Len(indices) : \E n \in 1..Len(new_vertices) :
          /\ new_vertices[n] = vertices[indices[j] + 1]
          /\ n # indices[j] + 1
    /\ Len(new_vertices) < Len(vertices) + chunk

\* The positions held by a vertex buffer.
Positions(buf) == {buf[j] : j \in 1..Len(buf)}

\* v is on the boundary of the patch of tile_resolution sz.
OnPatchBoundary(v, sz) == v[1] \in {0, sz * Unit} \/ v[3] \in {0, sz * Unit}

\* The centers (x + 1/2, 0, z + 1/2) of the cells of the patch.
CellCenters(sz) ==
    {<<x * Unit + Unit \div 2, 0, z * Unit + Unit \div 2>> : x, z \in 0..(sz - 1)}

\* C27: for positive size the boundary vertices of the refined Tile mesh
\* are exactly the boundary vertices of the unrefined Tile lattice, and the
\* vertices the refinement adds are exactly the size^2 cell centers.
C27_TileBoundary ==
    size > 0 =>
        \A i \in Created(Role("Tile", FALSE)), j \in Created(Role("Tile", TRUE)) :
            LET before == Positions(meshes[i].vertices)
                after  == Positions(meshes[j].vertices)
            IN  /\ {v \in after : OnPatchBoundary(v, size)}
                      = {v \in before : OnPatchBoundary(v, size)}
                /\ after \ before = CellCenters(size)

C27_Witness ==
    /\ size > 1
    /\ \E i \in Created(Role("Tile", FALSE)), j \in Created(Role("Tile", TRUE)) :
          /\ Len(meshes[j].vertices) = Len(meshes[i].vertices) + size * size
          /\ \E v \in Positions(meshes[i].vertices) : ~OnPatchBoundary(v, size)

\* C28: at every point of a pass, and after it, the weld table and the new
\* vertex buffer are in bijection: as many entries as vertices, every stored
\* index below the buffer length, one index per key and one key per index, and
\* the vertex at a stored index quantizes to the key of that index.
C28_WeldBijection ==
    /\ Cardinality(vertex_map) = Len(new_vertices)
    /\ \A e \in vertex_map :
          /\ 0 <= e[2]
          /\ e[2] < Len(new_vertices)
          /\ QuantizedKey(new_vertices[e[2] + 1]) = e[1]
    /\ \A e, f \in vertex_map : (e[1] = f[1] \/ e[2] = f[2]) => e = f

C28_Witness ==
    /\ pc = "subdivide"
    /\ 0 < chunk
    /\ 3 * chunk < Len(indices)
    /\ Len(new_vertices) >= 4
    /\ Cardinality(vertex_map) = Len(new_vertices)

-----------------------------------------------------------------------------
(* C29, C30 *)

\* The vertices of m are pairwise distinct, lie on the boundary of the
\* square [0, c] x [0, c] of the XZ plane, and each is one unit from the next,
\* the last one from the first.
SeamRing(m, c) ==
    LET n == Len(m.vertices)
    IN  /\ \A i, j \in 1..n : m.vertices[i] = m.vertices[j] => i = j
        /\ \A i \in 1..n :
              LET v == m.vertices[i]
              IN  /\ v[2] = 0
                  /\ 0 <= v[1] /\ v[1] <= c * Unit
                  /\ 0 <= v[3] /\ v[3] <= c * Unit
                  /\ v[1] \in {0, c * Unit} \/ v[3] \in {0, c * Unit}
        /\ \A i \in 1..n :
              SquaredDistance(m.vertices[i], m.vertices[(i % n) + 1]) = Unit * Unit

\* C29: for positive size, with c = 4 size + 2, the Seam mesh is registered
\* with 4 c pairwise distinct vertices on the boundary of [0, c] x [0, c], each
\* one unit from the next and the last one unit from the first.
C29_SeamRing ==
    size > 0 =>
        /\ \A i \in Created(Role("Seam", FALSE)) :
              /\ Len(meshes[i].vertices) = 4 * (4 * size + 2)
              /\ SeamRing(meshes[i], 4 * size + 2)
        /\ Ended => Created(Role("Seam", FALSE)) # {}

\* C30: for positive size all eight meshes are registered, the refined mesh
\* of Tile, Filler and Trim has the box of the unrefined mesh, and the box of
\* the Trim, Cross and Seam meshes holds every vertex of the mesh, as does the
\* box generate passes with the buffers of the Trim, Cross and Seam blocks.
C30_MeshBoxes ==
    size > 0 =>
        /\ \A s \in Refinable :
              \A i \in Created(Role(s, FALSE)), j \in Created(Role(s, TRUE)) :
                  meshes[j].aabb = meshes[i].aabb
        /\ \A i \in 1..Len(meshes) :
              roles[i].shape \in {"Trim", "Cross", "Seam"} => VerticesInsideBox(meshes[i])
        /\ Ended => AllEightCreated
        /\ \A s \in {"Trim", "Cross", "Seam"} : VerticesInsideBox(MeshOfSize(Role(s, FALSE), size))

====
